---------------------------- MODULE Spec2Model ----------------------------
(***************************************************************************)
(* A model of rdm/tex.py: the conversion of a markdown document with YAML  *)
(* front matter into LaTeX lines.                                          *)
(*                                                                         *)
(* Text is a sequence of atoms.  An atom is a one-character string where   *)
(* the code looks at single characters (the front-matter delimiter, file   *)
(* paths) and a longer string where the code only moves a fragment around  *)
(* (a LaTeX command name, a word of a title).  A line is such a sequence,  *)
(* a document a sequence of lines.                                         *)
(*                                                                         *)
(* Three specifications share the variables:                               *)
(*   SpecExtract  _extract_yaml_front_matter on bounded input texts        *)
(*   SpecDoc      add_margins, add_title_and_toc, add_header_and_footer    *)
(*                and the line filtering of yaml_gfm_to_tex                *)
(*   SpecImage    the line filter of create_image_handling_filter, one     *)
(*                resolver call at a time                                  *)
(***************************************************************************)
EXTENDS Integers, Sequences, FiniteSets, TLC

VARIABLES
    pc,                   \* position of the operation under way
    err,                  \* the exception raised, "none" while there is none
    raw_string,           \* _extract_yaml_front_matter: its argument
    front_matter_string,  \* _extract_yaml_front_matter: the text handed to yaml.load
    template_string,      \* _extract_yaml_front_matter: the markdown it returns
    front_matter,         \* the parsed front matter: a function on the keys present
    context,              \* context['system']['manufacturer_name']
    tex_lines,            \* the list of LaTeX lines, mutated in place
    pandoc_lines,         \* the lines as pandoc returned them
    history,              \* the mutators called so far, in call order
    input_folder,         \* folder of the input document
    download_to,          \* the download-staging folder, or None
    source_line,          \* line filter: its argument
    urls,                 \* line filter: the image references found in the line
    url_idx,              \* line filter: the reference being rewritten
    stage,                \* line filter: the next resolver of the chain
    value,                \* line filter: the reference as rewritten so far
    result_line,          \* line filter: the line as rewritten so far
    files,                \* files written: destination path -> what was written
    log                   \* line filter: the calls made, in order

vars == <<pc, err, raw_string, front_matter_string, template_string,
          front_matter, context, tex_lines, pandoc_lines, history,
          input_folder, download_to, source_line, urls, url_idx, stage,
          value, result_line, files, log>>

extractVars == <<raw_string, front_matter_string, template_string>>
docVars     == <<context, tex_lines, pandoc_lines, history>>
imageVars   == <<input_folder, download_to, source_line, urls, url_idx,
                 stage, value, result_line, files, log>>

----------------------------------------------------------------------------
(* Bounds *)

\* Input texts are made of at most MaxChunks chunks (see RawStrings).
MaxChunks == 6
\* pandoc returns at most MaxTexLines lines.
MaxTexLines == 3
\* A filtered line holds at most MaxCommands image-inclusion commands.
MaxCommands == 2

----------------------------------------------------------------------------
(* Sequence helpers *)

Min(S) == CHOOSE x \in S : \A y \in S : x <= y
Max(S) == CHOOSE x \in S : \A y \in S : x >= y

\* Python list.insert(index, x) for 0 <= index <= len (index is 0-based).
ListInsert(s, index, x) ==
    SubSeq(s, 1, index) \o <<x>> \o SubSeq(s, index + 1, Len(s))

\* The places (1-based) where d occurs in s.
Occurrences(s, d) ==
    { i \in 1..(Len(s) - Len(d) + 1) : SubSeq(s, i, i + Len(d) - 1) = d }

\* Python str.find(d, from) as a 1-based place, 0 when there is none.
Find(s, d, from) ==
    LET later == { i \in Occurrences(s, d) : i >= from }
    IN  IF later = {} THEN 0 ELSE Min(later)

\* Python str.split(d): cut at the leftmost occurrence, again on the rest.
RECURSIVE StrSplit(_, _)
StrSplit(s, d) ==
    LET i == Find(s, d, 1)
    IN  IF i = 0 THEN <<s>>
        ELSE <<SubSeq(s, 1, i - 1)>> \o StrSplit(SubSeq(s, i + Len(d), Len(s)), d)

\* Python d.join(parts).
RECURSIVE StrJoin(_, _)
StrJoin(d, parts) ==
    IF Len(parts) = 0 THEN <<>>
    ELSE IF Len(parts) = 1 THEN parts[1]
    ELSE parts[1] \o d \o StrJoin(d, Tail(parts))

\* Python str.replace(old, new): every non-overlapping occurrence, left to right.
RECURSIVE StrReplace(_, _, _)
StrReplace(s, old, new) ==
    LET i == Find(s, old, 1)
    IN  IF i = 0 THEN s
        ELSE SubSeq(s, 1, i - 1) \o new
             \o StrReplace(SubSeq(s, i + Len(old), Len(s)), old, new)

\* Python list.index(x) as a 0-based index, -1 standing for ValueError.
ListIndex(s, x) ==
    LET at == { i \in 1..Len(s) : s[i] = x }
    IN  IF at = {} THEN -1 ELSE Min(at) - 1

RECURSIVE Flatten(_)
Flatten(ss) == IF Len(ss) = 0 THEN <<>> ELSE ss[1] \o Flatten(Tail(ss))

SeqsUpTo(S, n) == UNION { [1..k -> S] : k \in 0..n }

----------------------------------------------------------------------------
(* Values shared by the specifications *)

None == <<"None">>

\* The output base folder determine_locations settles on.
OutputBase == <<"o">>

NoFrontMatter == <<>>

\* A YAML scalar: a string, an integer or null.
StrV(s) == [t |-> "str", s |-> s, n |-> 0]
IntV(n) == [t |-> "int", s |-> <<>>, n |-> n]
NullV   == [t |-> "null", s |-> <<>>, n |-> 0]

ImageTitle == <<"\\includegraphics", "{", "a", ".", "p", "n", "g", "}">>

TitleValues    == { StrV(<<"Doc">>), StrV(ImageTitle), IntV(7) }
IdValues       == { StrV(<<"DOC-1">>), IntV(7) }
RevisionValues == { NullV, IntV(0), IntV(2), IntV(12), StrV(<<"B">>) }

\* The mappings yaml.load may return: any of the three keys may be missing.
FrontMatters ==
    { f \in UNION { [K -> TitleValues \cup IdValues \cup RevisionValues] :
                    K \in SUBSET {"title", "id", "revision"} } :
        /\ "title" \in DOMAIN f => f["title"] \in TitleValues
        /\ "id" \in DOMAIN f => f["id"] \in IdValues
        /\ "revision" \in DOMAIN f => f["revision"] \in RevisionValues }

Manufacturers == { <<"Acme">>, <<"Beta">> }

----------------------------------------------------------------------------
(* _extract_yaml_front_matter *)

Delimiter == <<"-", "-", "-", "\n">>

Chunks == { <<"-">>, <<"\n">>, <<"a">>, Delimiter }

\* The input texts: every concatenation of at most MaxChunks chunks.
RawStrings == { Flatten(c) : c \in SeqsUpTo(Chunks, MaxChunks) }

Parts(s) == StrSplit(s, Delimiter)

\* The check off by one: two parts taken for enough.
SplitFailsBelowTwo(s) == Len(Parts(s)) < 2

SplitFails(s) == Len(Parts(s)) < 3

FrontMatterString(s) == Parts(s)[2]

\* The remaining parts joined without the delimiter between them.
TemplateStringUnjoined(s) ==
    LET parts == Parts(s) IN Flatten(SubSeq(parts, 3, Len(parts)))

TemplateString(s) ==
    LET parts == Parts(s) IN StrJoin(Delimiter, SubSeq(parts, 3, Len(parts)))

ExtractInit ==
    /\ pc = "extract"
    /\ err = "none"
    /\ raw_string \in RawStrings
    /\ front_matter_string = <<>>
    /\ template_string = <<>>
    /\ front_matter = NoFrontMatter
    /\ context = <<>>
    /\ tex_lines = <<>>
    /\ pandoc_lines = <<>>
    /\ history = <<>>
    /\ input_folder = <<>>
    /\ download_to = None
    /\ source_line = <<>>
    /\ urls = <<>>
    /\ url_idx = 0
    /\ stage = 0
    /\ value = <<>>
    /\ result_line = <<>>
    /\ files = {}
    /\ log = <<>>

\* Fewer than three parts: ValueError('Invalid YAML front matter').
ExtractTooFewParts ==
    /\ pc = "extract"
    /\ SplitFails(raw_string)
    /\ pc' = "raised"
    /\ err' = "ValueError"
    /\ UNCHANGED <<extractVars, front_matter, docVars, imageVars>>

\* yaml.load rejects the front-matter string: ValueError again.
ExtractYamlError ==
    /\ pc = "extract"
    /\ ~SplitFails(raw_string)
    /\ front_matter_string' = FrontMatterString(raw_string)
    /\ template_string' = TemplateString(raw_string)
    /\ pc' = "raised"
    /\ err' = "ValueError"
    /\ UNCHANGED <<raw_string, front_matter, docVars, imageVars>>

\* yaml.load returns a mapping; the pair (template_string, front_matter) is returned.
ExtractReturns ==
    /\ pc = "extract"
    /\ ~SplitFails(raw_string)
    /\ front_matter_string' = FrontMatterString(raw_string)
    /\ template_string' = TemplateString(raw_string)
    /\ \E fm \in FrontMatters : front_matter' = fm
    /\ pc' = "returned"
    /\ err' = "none"
    /\ UNCHANGED <<raw_string, docVars, imageVars>>

ExtractNext == ExtractTooFewParts \/ ExtractYamlError \/ ExtractReturns

SpecExtract == ExtractInit /\ [][ExtractNext]_vars

----------------------------------------------------------------------------
(* The LaTeX text mutators *)

BeginDocument      == <<"\\begin{document}">>
DocumentClass      == <<"\\documentclass[]{article}">>
DocumentClassOpen  == <<"\\documentclass[">>
DocumentClassClose == <<"]{article}">>
BodyLine           == <<"Hello">>
GeometryLine       == <<"\\usepackage[margin=1.25in]{geometry}">>

PandocLineSet ==
    { BeginDocument, DocumentClass, DocumentClassOpen, DocumentClassClose, BodyLine }

\* tex.split('\n') holds at least one line.
PandocOutputs == UNION { [1..k -> PandocLineSet] : k \in 1..MaxTexLines }

Digits == <<"0", "1", "2", "3", "4", "5", "6", "7", "8", "9">>

\* str(n) of an integer n >= 0: its decimal digits.
RECURSIVE IntStr(_)
IntStr(n) ==
    IF n < 10 THEN <<Digits[n + 1]>>
    ELSE IntStr(n \div 10) \o <<Digits[(n % 10) + 1]>>

\* str(v) of a YAML scalar.
PyStr(v) ==
    CASE v.t = "str" -> v.s
      [] v.t = "int" -> IntStr(v.n)
      [] OTHER -> <<"None">>

\* dict.get(key): None when the key is missing.
DictGet(fm, key) == IF key \in DOMAIN fm THEN fm[key] ELSE NullV

\* The test written as "if revision_number:", which revision 0 fails.
RevisionStrTruthy(revision_number) ==
    IF revision_number # NullV /\ revision_number # IntV(0)
    THEN <<", Rev. ">> \o PyStr(revision_number)
    ELSE <<>>

RevisionStr(revision_number) ==
    IF revision_number # NullV
    THEN <<", Rev. ">> \o PyStr(revision_number)
    ELSE <<>>

\* The loop without reversed(): the block lands in reverse order.
RECURSIVE InsertLinesForward(_, _, _)
InsertLinesForward(existing, index, new_lines) ==
    IF Len(new_lines) = 0 THEN existing
    ELSE InsertLinesForward(ListInsert(existing, index, new_lines[1]),
                            index, Tail(new_lines))

\* for line in reversed(new_lines): existing.insert(index, line)
RECURSIVE InsertLines(_, _, _)
InsertLines(existing, index, new_lines) ==
    IF Len(new_lines) = 0 THEN existing
    ELSE InsertLines(ListInsert(existing, index, new_lines[Len(new_lines)]),
                     index, SubSeq(new_lines, 1, Len(new_lines) - 1))

\* What evaluating front_matter['title'] and front_matter['id'] inside a string
\* concatenation raises, title first: KeyError for a missing key, TypeError for
\* a value that is no string, "none" when both evaluate.
RequiredKeysError(fm) ==
    CASE "title" \notin DOMAIN fm -> "KeyError"
      [] fm["title"].t # "str"    -> "TypeError"
      [] "id" \notin DOMAIN fm    -> "KeyError"
      [] fm["id"].t # "str"       -> "TypeError"
      [] OTHER                    -> "none"

TocLines ==
    << <<"\\maketitle">>, <<"\\thispagestyle{empty}">>,
       <<"\\tableofcontents">>, <<"\\pagebreak">> >>

\* The second title line without the revision string.
TitleLinesNoRevision(fm, manufacturer_name) ==
    << <<"\\title{">> \o fm["title"].s \o <<" \\\\ ">>,
       <<"\\large ">> \o fm["id"].s \o <<"}">>,
       <<"\\date{\\today}">>,
       <<"\\author{">> \o manufacturer_name \o <<"}">> >>

TitleLines(fm, manufacturer_name) ==
    << <<"\\title{">> \o fm["title"].s \o <<" \\\\ ">>,
       <<"\\large ">> \o fm["id"].s \o RevisionStr(DictGet(fm, "revision")) \o <<"}">>,
       <<"\\date{\\today}">>,
       <<"\\author{">> \o manufacturer_name \o <<"}">> >>

HeaderFirstPageLines == << <<"\\thispagestyle{empty}">> >>

HeaderLines(fm) ==
    << <<"\\usepackage{fancyhdr}">>,
       <<"\\usepackage{lastpage}">>,
       <<"\\pagestyle{fancy}">>,
       <<"\\lhead{">> \o fm["title"].s \o <<"}">>,
       <<"\\rhead{">> \o fm["id"].s \o RevisionStr(DictGet(fm, "revision")) \o <<"}">>,
       <<"\\cfoot{Page \\thepage\\ of \\pageref{LastPage}}">> >>

\* add_margins: the 0-based index of the last line of the document-class
\* statement, or the exception raised looking for it.
DocumentClassIndex(lines) ==
    LET one  == ListIndex(lines, DocumentClass)
        open == ListIndex(lines, DocumentClassOpen)
    IN  IF one # -1 THEN [err |-> "none", index |-> one]
        ELSE IF open = -1 THEN [err |-> "ValueError", index |-> -1]
        ELSE IF open + 2 > Len(lines) THEN [err |-> "IndexError", index |-> -1]
        ELSE IF lines[open + 2] = DocumentClassClose
             THEN [err |-> "none", index |-> open + 1]
        ELSE [err |-> "ValueError", index |-> -1]

\* add_margins: the exception raised ("none" for a normal return) and the lines left.
MarginsResult(lines) ==
    LET found == DocumentClassIndex(lines)
    IN  IF found.err # "none"
        THEN [err |-> found.err, lines |-> lines]
        ELSE [err |-> "none",
              lines |-> ListInsert(lines, found.index + 1, GeometryLine)]

\* add_title_and_toc: the first block is inserted before the second is built.
TitleAndTocResult(lines, fm, manufacturer_name) ==
    LET begin_document_index == ListIndex(lines, BeginDocument)
        after == InsertLines(lines, begin_document_index + 1, TocLines)
    IN  IF begin_document_index = -1
        THEN [err |-> "ValueError", lines |-> lines]
        ELSE IF RequiredKeysError(fm) # "none"
        THEN [err |-> RequiredKeysError(fm), lines |-> after]
        ELSE [err |-> "none",
              lines |-> InsertLines(after, begin_document_index,
                                    TitleLines(fm, manufacturer_name))]

\* The keys read with front_matter.get(key, ''): a missing key raises nothing.
HeaderAndFooterResultGet(lines, fm) ==
    LET begin_document_index == ListIndex(lines, BeginDocument)
        after == InsertLines(lines, begin_document_index + 1, HeaderFirstPageLines)
        got == [k \in DOMAIN fm \cup {"title", "id"} |->
                   IF k \in DOMAIN fm THEN fm[k] ELSE StrV(<<>>)]
    IN  IF begin_document_index = -1
        THEN [err |-> "ValueError", lines |-> lines]
        ELSE IF RequiredKeysError(got) # "none"
        THEN [err |-> RequiredKeysError(got), lines |-> after]
        ELSE [err |-> "none",
              lines |-> InsertLines(after, begin_document_index, HeaderLines(got))]

\* add_header_and_footer
HeaderAndFooterResult(lines, fm) ==
    LET begin_document_index == ListIndex(lines, BeginDocument)
        after == InsertLines(lines, begin_document_index + 1, HeaderFirstPageLines)
    IN  IF begin_document_index = -1
        THEN [err |-> "ValueError", lines |-> lines]
        ELSE IF RequiredKeysError(fm) # "none"
        THEN [err |-> RequiredKeysError(fm), lines |-> after]
        ELSE [err |-> "none",
              lines |-> InsertLines(after, begin_document_index, HeaderLines(fm))]

Called(f) == \E i \in 1..Len(history) : history[i] = f

DocInit ==
    /\ pc = "doc"
    /\ err = "none"
    /\ raw_string = <<>>
    /\ front_matter_string = <<>>
    /\ template_string = <<>>
    /\ front_matter \in FrontMatters
    /\ context \in Manufacturers
    /\ tex_lines \in PandocOutputs
    /\ pandoc_lines = tex_lines
    /\ history = <<>>
    /\ input_folder = OutputBase
    /\ download_to = None
    /\ source_line = <<>>
    /\ urls = <<>>
    /\ url_idx = 0
    /\ stage = 0
    /\ value = <<>>
    /\ result_line = <<>>
    /\ files = {}
    /\ log = <<>>

\* A mutator is called once: it returns, or raises and leaves the lines as
\* they are then.
Mutate(name, result) ==
    /\ pc = "doc"
    /\ history' = Append(history, name)
    /\ pc' = IF result.err = "none" THEN "doc" ELSE "raised"
    /\ err' = result.err
    /\ tex_lines' = result.lines
    /\ UNCHANGED <<extractVars, front_matter, context, pandoc_lines, imageVars>>

add_margins ==
    /\ ~Called("add_margins")
    /\ Mutate("add_margins", MarginsResult(tex_lines))

add_title_and_toc ==
    /\ ~Called("add_title_and_toc")
    /\ Mutate("add_title_and_toc",
              TitleAndTocResult(tex_lines, front_matter, context))

add_header_and_footer ==
    /\ ~Called("add_header_and_footer")
    /\ Mutate("add_header_and_footer",
              HeaderAndFooterResult(tex_lines, front_matter))

PipelineOrder == <<"add_margins", "add_title_and_toc", "add_header_and_footer">>

----------------------------------------------------------------------------
(* Paths (os.path on a POSIX system) *)

Slash == "/"

IsUrl(path) == Len(path) > 0 /\ path[1] \in {"http:", "https:"}

\* os.path.join(a, b)
PathJoin(a, b) ==
    IF Len(b) > 0 /\ b[1] = Slash THEN b
    ELSE IF Len(a) = 0 \/ a[Len(a)] = Slash THEN a \o b
    ELSE a \o <<Slash>> \o b

\* os.path.split(path)[1]: what follows the last slash.
LeafName(path) ==
    LET at == { i \in 1..Len(path) : path[i] = Slash }
    IN  IF at = {} THEN path ELSE SubSeq(path, Max(at) + 1, Len(path))

\* The components of a path: its parts between slashes, empty ones and "." dropped.
PathComponents(path) ==
    SelectSeq(StrSplit(path, <<Slash>>), LAMBDA c : c # <<>> /\ c # <<".">>)

RECURSIVE CommonPrefixLen(_, _)
CommonPrefixLen(a, b) ==
    IF Len(a) = 0 \/ Len(b) = 0 \/ a[1] # b[1] THEN 0
    ELSE 1 + CommonPrefixLen(Tail(a), Tail(b))

\* determine_relative_path(path, base): path as seen from the folder base.
DetermineRelativePath(path, base) ==
    LET p    == PathComponents(path)
        b    == PathComponents(base)
        n    == CommonPrefixLen(p, b)
        ups  == [i \in 1..(Len(b) - n) |-> <<".", ".">>]
        rest == ups \o SubSeq(p, n + 1, Len(p))
    IN  IF Len(rest) = 0 THEN <<".">> ELSE StrJoin(<<Slash>>, rest)

----------------------------------------------------------------------------
(* The image-handling line filter *)

InputFolders == { <<"o">>, <<"o", "/", "i">> }

DownloadTos == { None, <<"o", "/", "t">> }

IncludeGraphics == "\\includegraphics"

DefaultWidth == "[width=0.95\\textwidth]"

\* The option brackets a command of the generated markup may carry.
OptionAtoms == { DefaultWidth, "[width=0.5\\textwidth]", "[height=3cm]" }

WidthOptions == { DefaultWidth, "[width=0.5\\textwidth]" }

\* The image references of the input lines.
ImagePaths ==
    { <<"a", ".", "p", "n", "g">>,
      <<"d", "/", "a", ".", "s", "v", "g">>,
      <<"e", "/", "a", ".", "s", "v", "g">>,
      <<"http:", "/", "/", "h", "/", "b", ".", "s", "v", "g">>,
      <<"https:", "/", "/", "h", "/", "c", ".", "p", "n", "g">> }

\* One image-inclusion command, with its option bracket or (opt = "") without.
Command(opt, path) ==
    <<IncludeGraphics>> \o (IF opt = "" THEN <<>> ELSE <<opt>>)
    \o <<"{">> \o path \o <<"}">>

\* The option brackets of the input lines, "" for a command without one.
SourceOptions == { "", "[width=0.5\\textwidth]", "[height=3cm]" }

Commands == { Command(opt, path) : opt \in SourceOptions, path \in ImagePaths }

\* The input lines: text, then at most MaxCommands commands with text between.
SourceLines ==
    { <<"See ">> \o StrJoin(<<" and ">>, c) : c \in SeqsUpTo(Commands, MaxCommands) }

\* Where the brace of the command starting at i opens.
BraceAt(line, i) ==
    IF i + 1 <= Len(line) /\ line[i + 1] \in OptionAtoms THEN i + 2 ELSE i + 1

\* Where the brace opened at b closes, 0 when it does not.
CloseAt(line, b) ==
    LET closes == { j \in (b + 1)..Len(line) : line[j] = "}" }
    IN  IF closes = {} THEN 0 ELSE Min(closes)

\* The places where an image-inclusion command starts.
CommandStarts(line) ==
    { i \in 1..Len(line) :
        /\ line[i] = IncludeGraphics
        /\ BraceAt(line, i) <= Len(line)
        /\ line[BraceAt(line, i)] = "{"
        /\ CloseAt(line, BraceAt(line, i)) # 0 }

RECURSIVE SortedSeq(_)
SortedSeq(S) ==
    IF S = {} THEN <<>> ELSE <<Min(S)>> \o SortedSeq(S \ {Min(S)})

\* The k-th command of a line: its start, the option bracket ("" for none)
\* and the span of its reference.
CommandAt(line, k) ==
    LET i == SortedSeq(CommandStarts(line))[k]
        b == BraceAt(line, i)
    IN  [start |-> i,
         opt   |-> IF b = i + 2 THEN line[i + 1] ELSE "",
         from  |-> b + 1,
         to    |-> CloseAt(line, b) - 1]

NumCommands(line) == Cardinality(CommandStarts(line))

UrlAt(line, k) ==
    LET c == CommandAt(line, k) IN SubSeq(line, c.from, c.to)

\* extract_image_url_sequence_from_tex: the references of a line, in order.
ExtractImageUrlSequenceFromTex(line) ==
    [k \in 1..NumCommands(line) |-> UrlAt(line, k)]

\* The line with its k-th reference replaced.
ReplaceUrl(line, k, new_url) ==
    LET c == CommandAt(line, k)
    IN  SubSeq(line, 1, c.from - 1) \o new_url \o SubSeq(line, c.to + 1, Len(line))

SvgSuffix == <<".", "s", "v", "g">>

\* image_is_svg: by the suffix of the path alone.
ImageIsSvg(path) ==
    Len(path) >= Len(SvgSuffix)
    /\ SubSeq(path, Len(path) - Len(SvgSuffix) + 1, Len(path)) = SvgSuffix

\* create_image_handling_filter: where converted svg files are placed.
SvgToPdfLocation(dl) == IF dl = None THEN OutputBase ELSE dl

\* The slice taken one character short: leaf_name[0:-4] + 'pdf'
PdfLeafNameNoDot(leaf_name) ==
    SubSeq(leaf_name, 1, Len(leaf_name) - 4) \o <<"p", "d", "f">>

\* svg_to_pdf_filter: leaf_name[0:-3] + 'pdf'
PdfLeafName(leaf_name) ==
    SubSeq(leaf_name, 1, Len(leaf_name) - 3) \o <<"p", "d", "f">>

SvgSourcePath(path) == PathJoin(OutputBase, path)

\* The destination keeping the folders of the source under the location.
SvgDestinationPathKeepingFolders(path, location) ==
    LET leaf == LeafName(path)
    IN  PathJoin(location,
                 SubSeq(path, 1, Len(path) - Len(leaf)) \o PdfLeafName(leaf))

SvgDestinationPath(path, location) ==
    PathJoin(location, PdfLeafName(LeafName(SvgSourcePath(path))))

SvgToPdfFilter(path, location) ==
    IF ImageIsSvg(path)
    THEN DetermineRelativePath(SvgDestinationPath(path, location), OutputBase)
    ELSE path

\* create_relative_path_filter: a path of the input folder as seen from the
\* output base; a remote URL is left for the download resolvers.
RelativePathFilter(path, folder) ==
    IF IsUrl(path) THEN path
    ELSE DetermineRelativePath(PathJoin(folder, path), OutputBase)

DownloadScheme(name) == IF name = "download_http" THEN "http:" ELSE "https:"

Downloads(name, path) == IsUrl(path) /\ path[1] = DownloadScheme(name)

DownloadDestination(path, dl) == PathJoin(dl, LeafName(path))

\* A download resolver: a remote URL of its kind becomes the local copy's path.
DownloadFilter(name, path, dl) ==
    IF Downloads(name, path)
    THEN DetermineRelativePath(DownloadDestination(path, dl), OutputBase)
    ELSE path

\* create_download_filters: no resolver without a staging folder.
DownloadFilters(dl) ==
    IF dl = None THEN <<>> ELSE <<"download_http", "download_https">>

\* The chain with the conversion ahead of the downloads.
CompleteUrlFilterListSvgFirst(dl) ==
    <<"relative_path", "svg_to_pdf">> \o DownloadFilters(dl)

\* The resolvers chained into complete_url_filter, in order.
CompleteUrlFilterList(dl) ==
    <<"relative_path">> \o DownloadFilters(dl) \o <<"svg_to_pdf">>

\* One resolver applied to one reference.
UrlFilter(name, path, folder, dl) ==
    CASE name = "relative_path" -> RelativePathFilter(path, folder)
      [] name = "svg_to_pdf"    -> SvgToPdfFilter(path, SvgToPdfLocation(dl))
      [] OTHER                  -> DownloadFilter(name, path, dl)

\* The replacement limited to the first occurrence: str.replace(old, new, 1).
GraphicsWidthLineFilterOnce(line) ==
    LET old == <<IncludeGraphics, "{">>
        i   == Find(line, old, 1)
    IN  IF i = 0 THEN line
        ELSE SubSeq(line, 1, i - 1) \o <<IncludeGraphics, DefaultWidth, "{">>
             \o SubSeq(line, i + Len(old), Len(line))

\* graphics_width_line_filter
GraphicsWidthLineFilter(line) ==
    StrReplace(line, <<IncludeGraphics, "{">>,
                     <<IncludeGraphics, DefaultWidth, "{">>)

\* filter_list_filter: each filter receives the previous one's result.
RECURSIVE FilterListFilter(_, _, _, _)
FilterListFilter(names, path, folder, dl) ==
    IF Len(names) = 0 THEN path
    ELSE FilterListFilter(Tail(names), UrlFilter(names[1], path, folder, dl),
                          folder, dl)

\* create_filter_applicator: every reference of the line rewritten, from the k-th on.
RECURSIVE ImageLineFilter(_, _, _, _)
ImageLineFilter(line, k, folder, dl) ==
    IF k > NumCommands(line) THEN line
    ELSE ImageLineFilter(
             ReplaceUrl(line, k,
                        FilterListFilter(CompleteUrlFilterList(dl),
                                         UrlAt(line, k), folder, dl)),
             k + 1, folder, dl)

\* The line filter create_image_handling_filter returns.
LineFilter(line, folder, dl) ==
    GraphicsWidthLineFilter(ImageLineFilter(line, 1, folder, dl))

----------------------------------------------------------------------------
(* yaml_gfm_to_tex after the three mutators: every line through the filter *)

filter_lines ==
    /\ pc = "doc"
    /\ history = PipelineOrder
    /\ tex_lines' = [i \in 1..Len(tex_lines) |->
                        LineFilter(tex_lines[i], input_folder, download_to)]
    /\ pc' = "written"
    /\ UNCHANGED <<err, extractVars, front_matter, context, pandoc_lines,
                   history, imageVars>>

DocNext ==
    \/ add_margins
    \/ add_title_and_toc
    \/ add_header_and_footer
    \/ filter_lines

SpecDoc == DocInit /\ [][DocNext]_vars

----------------------------------------------------------------------------
(* The line filter, one call at a time *)

ImageInit ==
    /\ pc = "line"
    /\ err = "none"
    /\ raw_string = <<>>
    /\ front_matter_string = <<>>
    /\ template_string = <<>>
    /\ front_matter = NoFrontMatter
    /\ context = <<>>
    /\ tex_lines = <<>>
    /\ pandoc_lines = <<>>
    /\ history = <<>>
    /\ input_folder \in InputFolders
    /\ download_to \in DownloadTos
    /\ source_line \in SourceLines
    /\ urls = <<>>
    /\ url_idx = 0
    /\ stage = 0
    /\ value = <<>>
    /\ result_line = <<>>
    /\ files = {}
    /\ log = <<>>

nonImageVars == <<extractVars, front_matter, docVars>>

Chain == CompleteUrlFilterList(download_to)

\* What the resolver writes when called on path: nothing, or one file.
Writes(name, path, dl) ==
    CASE name = "svg_to_pdf" /\ ImageIsSvg(path) ->
             { [path |-> SvgDestinationPath(path, SvgToPdfLocation(dl)),
                from |-> SvgSourcePath(path)] }
      [] name \in {"download_http", "download_https"} /\ Downloads(name, path) ->
             { [path |-> DownloadDestination(path, dl), from |-> path] }
      [] OTHER -> {}

\* Writing a file replaces whatever the destination held.
WriteFiles(fs, written) ==
    { f \in fs : \A w \in written : w.path # f.path } \cup written

Call(name, arg, ret, written) ==
    [f |-> name, arg |-> arg, ret |-> ret, wrote |-> written]

\* image_line_filter starts: the references of the line are extracted.
extract_urls ==
    /\ pc = "line"
    /\ urls' = ExtractImageUrlSequenceFromTex(source_line)
    /\ result_line' = source_line
    /\ IF Len(urls') = 0
       THEN pc' = "width" /\ url_idx' = 0 /\ stage' = 0 /\ value' = <<>>
       ELSE pc' = "url" /\ url_idx' = 1 /\ stage' = 1 /\ value' = urls'[1]
    /\ UNCHANGED <<err, nonImageVars, input_folder, download_to, source_line,
                   files, log>>

\* The next resolver of the chain is called on the reference and returns.
apply_url_filter ==
    /\ pc = "url"
    /\ stage <= Len(Chain)
    /\ LET name    == Chain[stage]
           ret     == UrlFilter(name, value, input_folder, download_to)
           written == Writes(name, value, download_to)
       IN  /\ value' = ret
           /\ files' = WriteFiles(files, written)
           /\ log' = Append(log, Call(name, value, ret, written))
    /\ stage' = stage + 1
    /\ UNCHANGED <<pc, err, nonImageVars, input_folder, download_to,
                   source_line, urls, url_idx, result_line>>

\* A download or a conversion fails: the exception leaves the filter.
url_filter_raises ==
    /\ pc = "url"
    /\ stage <= Len(Chain)
    /\ Writes(Chain[stage], value, download_to) # {}
    /\ pc' = "raised"
    /\ err' = "IOError"
    /\ UNCHANGED <<nonImageVars, imageVars>>

\* The chain is through: the reference is replaced in the line.
replace_url ==
    /\ pc = "url"
    /\ stage > Len(Chain)
    /\ result_line' = ReplaceUrl(result_line, url_idx, value)
    /\ IF url_idx < Len(urls)
       THEN /\ url_idx' = url_idx + 1
            /\ stage' = 1
            /\ value' = urls[url_idx + 1]
            /\ pc' = "url"
       ELSE /\ UNCHANGED <<url_idx, stage, value>>
            /\ pc' = "width"
    /\ UNCHANGED <<err, nonImageVars, input_folder, download_to, source_line,
                   urls, files, log>>

\* graphics_width_line_filter on the line image_line_filter returned.
apply_graphics_width ==
    /\ pc = "width"
    /\ result_line' = GraphicsWidthLineFilter(result_line)
    /\ log' = Append(log, Call("graphics_width", result_line, result_line', {}))
    /\ pc' = "done"
    /\ UNCHANGED <<err, nonImageVars, input_folder, download_to, source_line,
                   urls, url_idx, stage, value, files>>

\* graphics_width_line_filter called on its own.
graphics_width_only ==
    /\ pc = "line"
    /\ result_line' = GraphicsWidthLineFilter(source_line)
    /\ pc' = "width_only"
    /\ UNCHANGED <<err, nonImageVars, input_folder, download_to, source_line,
                   urls, url_idx, stage, value, files, log>>

ImageNext ==
    \/ extract_urls
    \/ apply_url_filter
    \/ url_filter_raises
    \/ replace_url
    \/ apply_graphics_width
    \/ graphics_width_only

SpecImage == ImageInit /\ [][ImageNext]_vars

\* The step-wise filter and the composed one agree.
StepwiseAgrees ==
    pc = "done" => result_line = LineFilter(source_line, input_folder, download_to)

----------------------------------------------------------------------------
(* Properties of _extract_yaml_front_matter, under SpecExtract *)

NumDelimiters == Cardinality(Occurrences(raw_string, Delimiter))

FirstDelimiter == Min(Occurrences(raw_string, Delimiter))

SecondDelimiter == Min(Occurrences(raw_string, Delimiter) \ {FirstDelimiter})

\* C1: an input text with fewer than 2 occurrences of the delimiter '---\n'
\* makes _extract_yaml_front_matter raise ValueError before yaml.load is
\* reached; no (markdown, front matter) pair is returned.
C1_TooFewDelimitersRaise ==
    (pc # "extract" /\ NumDelimiters < 2)
        => /\ pc = "raised"
           /\ err = "ValueError"
           /\ front_matter_string = <<>>
           /\ template_string = <<>>
           /\ front_matter = NoFrontMatter

\* An input with one delimiter and text on both sides of it was rejected.
C1_Witness ==
    /\ pc = "raised"
    /\ NumDelimiters = 1
    /\ FirstDelimiter > 1
    /\ FirstDelimiter + Len(Delimiter) <= Len(raw_string)

\* C10: with at least 2 occurrences of the delimiter, the front-matter string
\* handed to yaml.load is exactly the text between the first and the second
\* occurrence, the markdown is exactly the text after the second occurrence
\* (later delimiters still in it), the text before the first occurrence is
\* dropped, and prefix + delimiter + front matter + delimiter + markdown is
\* the input.  The only failure left is yaml.load's.
C10_SplitAtFirstTwoDelimiters ==
    (pc # "extract" /\ NumDelimiters >= 2)
        => LET before == SubSeq(raw_string, 1, FirstDelimiter - 1)
           IN  /\ front_matter_string =
                      SubSeq(raw_string, FirstDelimiter + Len(Delimiter),
                             SecondDelimiter - 1)
               /\ template_string =
                      SubSeq(raw_string, SecondDelimiter + Len(Delimiter),
                             Len(raw_string))
               /\ before \o Delimiter \o front_matter_string \o Delimiter
                      \o template_string = raw_string
               /\ Cardinality(Occurrences(template_string, Delimiter))
                      = NumDelimiters - 2
               /\ pc = "returned" \/ err = "ValueError"

\* A pair was returned for an input with text before the first delimiter, a
\* non-empty front matter and a third delimiter inside the markdown.
C10_Witness ==
    /\ pc = "returned"
    /\ NumDelimiters >= 3
    /\ FirstDelimiter > 1
    /\ front_matter_string # <<>>
    /\ Occurrences(template_string, Delimiter) # {}

----------------------------------------------------------------------------
(* Properties of the mutators and of the pipeline, under SpecDoc *)

Count(lines, line) == Cardinality({ i \in 1..Len(lines) : lines[i] = line })

Contains(lines, line) == \E i \in 1..Len(lines) : lines[i] = line

LastCall == history[Len(history)]

\* A mutator has just been called.
JustCalled(name) ==
    /\ Len(history') = Len(history) + 1
    /\ history'[Len(history')] = name

\* The mutator returned normally, whatever was called after it.
Returned(name) ==
    /\ Called(name)
    /\ ~(pc = "raised" /\ LastCall = name)

\* title and id, where present, are strings: what the concatenations expect.
TextValued(fm) ==
    /\ "title" \in DOMAIN fm => fm["title"].t = "str"
    /\ "id" \in DOMAIN fm => fm["id"].t = "str"

HasRequiredKeys(fm) == {"title", "id"} \subseteq DOMAIN fm

RevisionText(v) ==
    CASE v = IntV(0)  -> <<"0">>
      [] v = IntV(2)  -> <<"2">>
      [] v = IntV(12) -> <<"1", "2">>
      [] v = StrV(<<"B">>) -> <<"B">>

HasRevision(fm) == "revision" \in DOMAIN fm /\ fm["revision"] # NullV

ExpectedLeftHeader(fm) == <<"\\lhead{">> \o fm["title"].s \o <<"}">>

ExpectedRightHeader(fm) ==
    IF HasRevision(fm)
    THEN <<"\\rhead{">> \o fm["id"].s \o <<", Rev. ">>
             \o RevisionText(fm["revision"]) \o <<"}">>
    ELSE <<"\\rhead{">> \o fm["id"].s \o <<"}">>

FirstIndex(lines, line) == Min({ i \in 1..Len(lines) : lines[i] = line })

\* C5: once add_header_and_footer has returned, the lines hold \lhead{T} and
\* \rhead{I, Rev. R} before \begin{document}; without a revision the right
\* header is \rhead{I}.  Title "Doc", id "DOC-1", revision 2 give
\* \lhead{Doc} and \rhead{DOC-1, Rev. 2}.
C5_HeaderLines ==
    (Returned("add_header_and_footer") /\ pc # "written")
        => /\ \E i, j \in 1..Len(tex_lines) :
                /\ tex_lines[i] = ExpectedLeftHeader(front_matter)
                /\ tex_lines[j] = ExpectedRightHeader(front_matter)
                /\ i < FirstIndex(tex_lines, BeginDocument)
                /\ j < FirstIndex(tex_lines, BeginDocument)
           /\ ( /\ front_matter["title"] = StrV(<<"Doc">>)
                /\ front_matter["id"] = StrV(<<"DOC-1">>)
                /\ DictGet(front_matter, "revision") = IntV(2) )
              => /\ Contains(tex_lines, <<"\\lhead{", "Doc", "}">>)
                 /\ Contains(tex_lines, <<"\\rhead{", "DOC-1", ", Rev. ", "2", "}">>)

\* The headers of "Doc", "DOC-1", revision 2 were inserted.
C5_Witness ==
    /\ Returned("add_header_and_footer")
    /\ "revision" \in DOMAIN front_matter
    /\ front_matter["revision"] = IntV(2)
    /\ Contains(tex_lines, <<"\\rhead{", "DOC-1", ", Rev. ", "2", "}">>)
    /\ Contains(tex_lines, <<"\\lhead{", "Doc", "}">>)

\* The front matter holds no image-inclusion command.
NoImageInFrontMatter(fm) ==
    \A k \in DOMAIN fm : \A i \in 1..Len(fm[k].s) : fm[k].s[i] # IncludeGraphics

\* C6: for a document with no images, the lines yaml_gfm_to_tex writes hold
\* the title line with the front-matter title, right after it the line with
\* the id followed by the revision string, and the \author line with the
\* manufacturer name of the context, all as literal text; the line filter
\* leaves every line as it was.
C6_LiteralTitleBlock ==
    [][ (pc = "doc" /\ pc' = "written" /\ NoImageInFrontMatter(front_matter))
        => /\ tex_lines' = tex_lines
           /\ \E i \in 1..(Len(tex_lines') - 1) :
                /\ tex_lines'[i] = <<"\\title{">> \o front_matter["title"].s
                                       \o <<" \\\\ ">>
                /\ tex_lines'[i + 1] =
                       IF HasRevision(front_matter)
                       THEN <<"\\large ">> \o front_matter["id"].s
                                \o <<", Rev. ">>
                                \o RevisionText(front_matter["revision"]) \o <<"}">>
                       ELSE <<"\\large ">> \o front_matter["id"].s \o <<"}">>
           /\ Contains(tex_lines', <<"\\author{">> \o context \o <<"}">>) ]_vars

\* The pipeline wrote the lines of a document with title "Doc", id "DOC-1"
\* and revision 12.
C6_Witness ==
    /\ pc = "written"
    /\ front_matter = [title |-> StrV(<<"Doc">>), id |-> StrV(<<"DOC-1">>),
                       revision |-> IntV(12)]
    /\ Contains(tex_lines, <<"\\large ", "DOC-1", ", Rev. ", "1", "2", "}">>)
    /\ Contains(tex_lines, <<"\\author{", "Acme", "}">>)

\* s is t with some elements left out.
RECURSIVE IsSubsequence(_, _)
IsSubsequence(s, t) ==
    IF Len(s) = 0 THEN TRUE
    ELSE IF Len(t) = 0 THEN FALSE
    ELSE IF s[1] = t[1] THEN IsSubsequence(Tail(s), Tail(t))
    ELSE IsSubsequence(s, Tail(t))

\* The lines hold exactly one document-class statement, in one line or in two.
OneDocumentClass(lines) ==
    \/ /\ Count(lines, DocumentClass) = 1
       /\ Count(lines, DocumentClassOpen) = 0
    \/ /\ Count(lines, DocumentClass) = 0
       /\ Count(lines, DocumentClassOpen) = 1
       /\ FirstIndex(lines, DocumentClassOpen) < Len(lines)
       /\ lines[FirstIndex(lines, DocumentClassOpen) + 1] = DocumentClassClose

\* The title block and the header block as add_title_and_toc and
\* add_header_and_footer are given them, written out.
ExpectedBeforeBegin(fm, manufacturer_name) ==
    << <<"\\title{">> \o fm["title"].s \o <<" \\\\ ">>,
       <<"\\large ">> \o fm["id"].s
           \o (IF HasRevision(fm)
               THEN <<", Rev. ">> \o RevisionText(fm["revision"]) ELSE <<>>)
           \o <<"}">>,
       <<"\\date{\\today}">>,
       <<"\\author{">> \o manufacturer_name \o <<"}">>,
       <<"\\usepackage{fancyhdr}">>,
       <<"\\usepackage{lastpage}">>,
       <<"\\pagestyle{fancy}">>,
       ExpectedLeftHeader(fm),
       ExpectedRightHeader(fm),
       <<"\\cfoot{Page \\thepage\\ of \\pageref{LastPage}}">> >>

ExpectedAfterBegin ==
    << <<"\\thispagestyle{empty}">>,
       <<"\\maketitle">>,
       <<"\\thispagestyle{empty}">>,
       <<"\\tableofcontents">>,
       <<"\\pagebreak">> >>

\* C9: add_margins, add_title_and_toc, add_header_and_footer, run in that
\* order on lines with one document-class statement and one \begin{document},
\* only insert: the original lines are all there in their order,
\* \begin{document} occurs once, 16 lines were added, the geometry line
\* follows the document-class statement, the four title lines then the six
\* header lines come right before \begin{document} and the five lines after
\* it are in the order given, each block in the order it was written.
C9_OnlyInsertions ==
    ( /\ pc = "doc"
      /\ history = PipelineOrder
      /\ OneDocumentClass(pandoc_lines)
      /\ Count(pandoc_lines, BeginDocument) = 1 )
        => /\ Len(tex_lines) = Len(pandoc_lines) + 16
           /\ IsSubsequence(pandoc_lines, tex_lines)
           /\ Count(tex_lines, BeginDocument) = 1
           /\ Count(tex_lines, GeometryLine) = 1
           /\ LET g == FirstIndex(tex_lines, GeometryLine)
              IN  /\ g > 1
                  /\ tex_lines[g - 1] \in {DocumentClass, DocumentClassClose}
                  /\ tex_lines[g - 1] = DocumentClassClose
                         => (g > 2 /\ tex_lines[g - 2] = DocumentClassOpen)
           /\ LET b == FirstIndex(tex_lines, BeginDocument)
              IN  /\ b > 10
                  /\ SubSeq(tex_lines, b - 10, b - 1)
                         = ExpectedBeforeBegin(front_matter, context)
                  /\ b + 5 <= Len(tex_lines)
                  /\ SubSeq(tex_lines, b + 1, b + 5) = ExpectedAfterBegin

\* The three mutators returned on lines whose document-class statement takes
\* two lines.
C9_Witness ==
    /\ pc = "doc"
    /\ history = PipelineOrder
    /\ pandoc_lines = <<DocumentClassOpen, DocumentClassClose, BeginDocument>>
    /\ Len(tex_lines) = 19

----------------------------------------------------------------------------
(* Properties of the line filter, under SpecImage *)

OptionAt(line, k) == CommandAt(line, k).opt

\* The line without its option brackets and with every reference blanked.
RECURSIVE Skeleton(_, _)
Skeleton(line, k) ==
    IF k > NumCommands(line)
    THEN SelectSeq(line, LAMBDA a : a \notin OptionAtoms)
    ELSE Skeleton(ReplaceUrl(line, k, <<"*">>), k + 1)

\* The line without its option brackets.
WithoutOptions(line) == SelectSeq(line, LAMBDA a : a \notin OptionAtoms)

\* A command with no option bracket gets the default width, a command with
\* an option bracket keeps it.
WidthInjected(before, after) ==
    /\ NumCommands(after) = NumCommands(before)
    /\ \A k \in 1..NumCommands(before) :
         /\ OptionAt(before, k) = "" => OptionAt(after, k) = DefaultWidth
         /\ OptionAt(before, k) # "" => OptionAt(after, k) = OptionAt(before, k)

SiblingPdfLeaf(path) ==
    LET leaf == LeafName(path)
    IN  SubSeq(leaf, 1, Len(leaf) - Len(SvgSuffix)) \o <<".", "p", "d", "f">>

\* C4 as stated: the SVG reference is replaced by a ".pdf" reference with
\* the same leaf name and every other character of the line is unchanged
\* (here for a line whose only command has an SVG reference).
C4_AsStated ==
    ( /\ pc = "done"
      /\ NumCommands(source_line) = 1
      /\ ImageIsSvg(UrlAt(source_line, 1)) )
        => /\ NumCommands(result_line) = 1
           /\ LeafName(UrlAt(result_line, 1)) = SiblingPdfLeaf(UrlAt(source_line, 1))
           /\ ReplaceUrl(result_line, 1, <<"*">>) = ReplaceUrl(source_line, 1, <<"*">>)

\* C4, amended: every SVG reference of the line is replaced by a reference
\* ending in ".pdf" with the same leaf name; apart from the image references
\* and from the default width the width filter injects into every command
\* with no option bracket, the line is unchanged.
C4_SvgBecomesPdf ==
    pc = "done"
        => /\ NumCommands(result_line) = NumCommands(source_line)
           /\ \A k \in 1..NumCommands(source_line) :
                ImageIsSvg(UrlAt(source_line, k))
                    => LeafName(UrlAt(result_line, k))
                           = SiblingPdfLeaf(UrlAt(source_line, k))
           /\ Skeleton(result_line, 1) = Skeleton(source_line, 1)
           /\ WidthInjected(source_line, result_line)

\* A line with an SVG reference in a command with a height went through.
C4_Witness ==
    /\ pc = "done"
    /\ source_line = <<"See ">> \o Command("[height=3cm]",
                                           <<"d", "/", "a", ".", "s", "v", "g">>)
    /\ input_folder = <<"o", "/", "i">>
    /\ download_to # None
    /\ result_line = <<"See ">> \o Command("[height=3cm]",
                                           <<"t", "/", "a", ".", "p", "d", "f">>)


DownloadNames == {"download_http", "download_https"}

\* The length of the resolver chain: the relative-path resolver, the download
\* resolvers if a staging folder is configured, the conversion.
ChainLength == IF download_to = None THEN 2 ELSE 2 + Len(DownloadFilters(download_to))

\* The reference and the resolver the i-th call of the log belongs to.
UrlOfCall(i) == ((i - 1) \div ChainLength) + 1
StageOfCall(i) == ((i - 1) % ChainLength) + 1

\* C7: the calls the line filter makes come in a fixed order.  Reference by
\* reference, in the order of the line: the relative-path resolver on the
\* reference as written, then the download resolvers in list order (none
\* without a staging folder), then the SVG resolver, each on what the one
\* before returned; a path that is no SVG leaves the SVG resolver as it
\* came.  The width filter is called last, once, on the line with every
\* reference rewritten, and what it returns is the result.
C7_StagesInOrder ==
    LET n == NumCommands(source_line)
        m == ChainLength
        urlCalls == IF Len(log) > n * m THEN n * m ELSE Len(log)
    IN  /\ Len(log) <= n * m + 1
        /\ \A i \in 1..urlCalls :
             /\ StageOfCall(i) = 1
                  => /\ log[i].f = "relative_path"
                     /\ log[i].arg = UrlAt(source_line, UrlOfCall(i))
             /\ StageOfCall(i) = m => log[i].f = "svg_to_pdf"
             /\ (StageOfCall(i) > 1 /\ StageOfCall(i) < m)
                  => log[i].f = DownloadFilters(download_to)[StageOfCall(i) - 1]
             /\ StageOfCall(i) > 1 => log[i].arg = log[i - 1].ret
             /\ download_to = None => log[i].f \notin DownloadNames
             /\ (log[i].f = "svg_to_pdf" /\ ~ImageIsSvg(log[i].arg))
                  => log[i].ret = log[i].arg
        /\ Len(log) = n * m + 1
             => /\ log[n * m + 1].f = "graphics_width"
                /\ NumCommands(log[n * m + 1].arg) = n
                /\ \A k \in 1..n :
                     UrlAt(log[n * m + 1].arg, k) = log[k * m].ret
                /\ Skeleton(log[n * m + 1].arg, 1) = Skeleton(source_line, 1)
                /\ pc = "done"
                /\ result_line = log[n * m + 1].ret
        /\ pc = "done" => Len(log) = n * m + 1
        /\ pc = "width" => Len(log) = n * m

\* A line with two references, a remote one among them, went through the
\* chain with both download resolvers in it.
C7_Witness ==
    /\ pc = "done"
    /\ download_to # None
    /\ NumCommands(source_line) = 2
    /\ IsUrl(UrlAt(source_line, 2))
    /\ Len(log) = 9
    /\ log[6].ret # log[6].arg

\* The conversions made so far: the calls of the SVG resolver on an SVG path.
Conversions == { i \in 1..Len(log) : log[i].f = "svg_to_pdf" /\ ImageIsSvg(log[i].arg) }

TheFile(written) == CHOOSE w \in written : TRUE

\* The folder part of a path: what precedes the last slash.
FolderOf(path) == SubSeq(path, 1, Len(path) - Len(LeafName(path)) - 1)

\* C8: svg_to_pdf_filter writes the converted file to the destination folder
\* (the staging folder if configured, else the output base) under the leaf
\* name of the SVG with its last three characters replaced by 'pdf'.  Two
\* SVGs with the same leaf name get the same destination and the same
\* returned reference, and the file holds the later conversion alone.
C8_DestinationFromLeafName ==
    /\ \A i \in Conversions :
         /\ Cardinality(log[i].wrote) = 1
         /\ LET dest == TheFile(log[i].wrote).path
                leaf == LeafName(log[i].arg)
            IN  /\ FolderOf(dest) = IF download_to = None THEN OutputBase
                                    ELSE download_to
                /\ Len(LeafName(dest)) = Len(leaf)
                /\ SubSeq(LeafName(dest), 1, Len(leaf) - 3)
                       = SubSeq(leaf, 1, Len(leaf) - 3)
                /\ SubSeq(LeafName(dest), Len(leaf) - 2, Len(leaf))
                       = <<"p", "d", "f">>
    /\ \A i, j \in Conversions :
         LeafName(log[i].arg) = LeafName(log[j].arg)
             => /\ TheFile(log[i].wrote).path = TheFile(log[j].wrote).path
                /\ log[i].ret = log[j].ret
    /\ \A i \in Conversions :
         LET dest == TheFile(log[i].wrote).path
             last == Max({ j \in Conversions : TheFile(log[j].wrote).path = dest })
         IN  { f \in files : f.path = dest } = log[last].wrote

\* Two SVGs named a.svg in two folders were converted: one file is left,
\* holding the second.
C8_Witness ==
    /\ pc = "done"
    /\ Cardinality(Conversions) = 2
    /\ \E i, j \in Conversions :
         /\ i < j
         /\ log[i].arg # log[j].arg
         /\ log[i].ret = log[j].ret
         /\ log[i].wrote # log[j].wrote
         /\ log[j].wrote \subseteq files
         /\ log[i].wrote \cap files = {}

=============================================================================
